---- MODULE Spec2Model ----
(***************************************************************************)
(* A model of the report cache, the report formatter, the combined-report  *)
(* assembler (supabase_tools.py) and the /chat handler (main.py).          *)
(*                                                                         *)
(* Python values are tagged records: the field t names the Python type.    *)
(* A dict payload is a function over AllKeys whose absent keys map to      *)
(* Missing.  A JSON text is the sequence of its tokens.  Time is counted   *)
(* in whole seconds.                                                       *)
(***************************************************************************)
EXTENDS Integers, Sequences, FiniteSets, TLC

VARIABLES clock, cache, last, op, conc, fmt, comb, chat

vars == <<clock, cache, last, op, conc, fmt, comb, chat>>

\* ---------------------------------------------------------------- bounds
MaxClock == 90
MaxVer == 2
MaxItems == 3
MaxK == 3

\* ------------------------------------------------------------- constants
REPORT_CACHE_TTL == 60
MAX_HISTORY_MESSAGES == 20

\* ---------------------------------------------------------- Python values
None == [t |-> "None"]
Missing == [t |-> "missing", n |-> 0]
EmptyMap == [t |-> "dict", n |-> 0]
SomeMap == [t |-> "dict", n |-> 1]
AList == [t |-> "list", n |-> 0]
ANull == [t |-> "None", n |-> 0]
AStr == [t |-> "str", n |-> 0]

NormKeys == {"categories", "aggregates", "meta"}
AllKeys == NormKeys \cup {"summary"}
KeyOrder == <<"categories", "aggregates", "meta", "summary">>

EmptyPayload == [k \in AllKeys |-> Missing]
KeysOf(d) == {k \in AllKeys : d[k].t # "missing"}
\* dict.get(key): the value, or None when the key is absent
DictGet(d, k) == IF d[k].t = "missing" THEN ANull ELSE d[k]

PyDict(d) == [t |-> "dict", d |-> d]
PyStr(s) == [t |-> "str", s |-> s]
PyList == [t |-> "list"]
PyInt == [t |-> "int"]

\* ------------------------------------------------------------------ JSON
AtomTokens == {"{}", "{k:1}", "[]", "null", "str"}
AtomVal(tok) ==
    CASE tok = "{}" -> EmptyMap
      [] tok = "{k:1}" -> SomeMap
      [] tok = "[]" -> AList
      [] tok = "null" -> ANull
      [] OTHER -> AStr
AtomTok(v) ==
    CASE v = EmptyMap -> "{}"
      [] v = SomeMap -> "{k:1}"
      [] v = AList -> "[]"
      [] v = ANull -> "null"
      [] OTHER -> "str"

RECURSIVE DumpMembers(_, _, _)
DumpMembers(d, i, first) ==
    IF i > Len(KeyOrder) THEN <<>>
    ELSE LET k == KeyOrder[i] IN
         IF d[k].t = "missing" THEN DumpMembers(d, i + 1, first)
         ELSE (IF first THEN <<>> ELSE <<",">>) \o <<k, ":", AtomTok(d[k])>>
              \o DumpMembers(d, i + 1, FALSE)
\* json.dumps of a dict payload
JsonDumps(d) == <<"{">> \o DumpMembers(d, 1, TRUE) \o <<"}">>

JsonError == [t |-> "JSONDecodeError"]

RECURSIVE ParseMembers(_, _)
ParseMembers(s, acc) ==
    IF Len(s) < 3 THEN JsonError
    ELSE IF s[1] \notin AllKeys \/ s[2] # ":" \/ s[3] \notin AtomTokens THEN JsonError
    ELSE LET acc2 == [acc EXCEPT ![s[1]] = AtomVal(s[3])] IN
         IF Len(s) = 3 THEN PyDict(acc2)
         ELSE IF s[4] = "," THEN ParseMembers(SubSeq(s, 5, Len(s)), acc2)
         ELSE JsonError

\* json.loads: the decoded value of any JSON text, JsonError for other text
JsonLoads(s) ==
    IF Len(s) = 0 THEN JsonError
    ELSE IF Len(s) = 1 THEN
        CASE s[1] = "[]" -> PyList
          [] s[1] = "null" -> None
          [] s[1] = "7" -> PyInt
          [] s[1] = "str" -> PyStr(<<>>)
          [] s[1] = "{}" -> PyDict(EmptyPayload)
          [] OTHER -> JsonError
    ELSE IF s[1] = "{" /\ s[Len(s)] = "}" THEN
        IF Len(s) = 2 THEN PyDict(EmptyPayload)
        ELSE ParseMembers(SubSeq(s, 2, Len(s) - 1), EmptyPayload)
    ELSE JsonError

\* --------------------------------------------------- _parse_report_data
ParseReportData(raw) ==
    IF raw.t = "dict" THEN raw
    ELSE IF raw.t = "str" THEN
        LET v == JsonLoads(raw.s) IN
        IF v.t = "JSONDecodeError" THEN PyDict(EmptyPayload) ELSE v
    ELSE PyDict(EmptyPayload)

\* ------------------------------- normalisation, get_baby_report_raw 87-100
NormField(v) == IF v.t = "dict" THEN v ELSE EmptyMap

NormalizeData(d) ==
    [k \in AllKeys |-> IF k \in NormKeys THEN NormField(DictGet(d, k)) ELSE Missing]

\* ------------------------------------------------------ the report cache
Keys == {<<"b1", "weekly_summary">>, <<"b1", "end_of_day_summary">>}

\* the row as the store returns it
StoreRow(key, ver, raw) ==
    [t |-> "row", baby_id |-> key[1], report_type |-> key[2],
     created_at |-> ver, data |-> raw]

CacheEntry(now, row) == [t |-> "tuple", at |-> now, row |-> row]

\* _REPORT_CACHE.get(key)
CacheGet(c, key) == IF key \in DOMAIN c THEN c[key] ELSE None

CachePutAlone(c, key, e) == [x \in {key} |-> e]

CachePutFirstWins(c, key, e) ==
    [x \in DOMAIN c \cup {key} |-> IF x \in DOMAIN c THEN c[x] ELSE e]

\* _REPORT_CACHE[key] = entry
CachePut(c, key, e) ==
    [x \in DOMAIN c \cup {key} |-> IF x = key THEN e ELSE c[x]]

CacheFreshInclusive(cached, now) ==
    cached.t # "None" /\ (now - cached.at) <= REPORT_CACHE_TTL

\* line 68: cached and (now - cached[0]) < _REPORT_CACHE_TTL
CacheFresh(cached, now) ==
    cached.t # "None" /\ (now - cached.at) < REPORT_CACHE_TTL

\* The reply of the store to the query of lines 72-81:
\*   error   - the client could not be built or the query raised
\*   no_rows - resp.data is empty
\*   row     - resp.data[0] is a row
StoreReply(kind, ver, raw) == [kind |-> kind, ver |-> ver, raw |-> raw]
NoReply == StoreReply("none", 0, None)

\* lines 72-102, the body of the try: exc is TRUE when it raises
FetchAndStore(c, now, key, st) ==
    IF st.kind = "error" THEN [exc |-> TRUE, ret |-> None, cache |-> c]
    ELSE IF st.kind = "no_rows" THEN [exc |-> FALSE, ret |-> None, cache |-> c]
    ELSE LET parsed == ParseReportData(st.raw) IN
         \* parsed.get(...) raises AttributeError unless parsed is a dict
         IF parsed.t # "dict" THEN [exc |-> TRUE, ret |-> None, cache |-> c]
         ELSE LET row == StoreRow(key, st.ver, PyDict(NormalizeData(parsed.d))) IN
              [exc |-> FALSE, ret |-> row, cache |-> CachePut(c, key, CacheEntry(now, row))]

\* lines 65-105: what one call returns and does
\*   ret     - the returned value     fetched - store fetches attempted
\*   logged  - an error was printed   raised  - an exception left the call
\*   cache   - the cache after the call
RawCallNoExcept(c, now, key, st) ==
    LET cached == CacheGet(c, key) IN
    IF CacheFresh(cached, now)
    THEN [ret |-> cached.row, fetched |-> 0, logged |-> FALSE, raised |-> FALSE,
          cache |-> c]
    ELSE LET r == FetchAndStore(c, now, key, st) IN
         [ret |-> r.ret, fetched |-> 1, logged |-> FALSE, raised |-> r.exc,
          cache |-> r.cache]

RawCallRetry(c, now, key, st) ==
    LET cached == CacheGet(c, key) IN
    IF CacheFresh(cached, now)
    THEN [ret |-> cached.row, fetched |-> 0, logged |-> FALSE, raised |-> FALSE,
          cache |-> c]
    ELSE LET r == FetchAndStore(c, now, key, st) IN
         IF r.exc
         THEN [ret |-> None, fetched |-> 2, logged |-> TRUE, raised |-> FALSE,
               cache |-> c]
         ELSE [ret |-> r.ret, fetched |-> 1, logged |-> FALSE, raised |-> FALSE,
               cache |-> r.cache]

RawCall(c, now, key, st) ==
    LET cached == CacheGet(c, key) IN
    IF CacheFresh(cached, now)
    THEN [ret |-> cached.row, fetched |-> 0, logged |-> FALSE, raised |-> FALSE,
          cache |-> c]
    ELSE LET r == FetchAndStore(c, now, key, st) IN
         IF r.exc
         THEN [ret |-> None, fetched |-> 1, logged |-> TRUE, raised |-> FALSE,
               cache |-> c]
         ELSE [ret |-> r.ret, fetched |-> 1, logged |-> FALSE, raised |-> FALSE,
               cache |-> r.cache]

\* ------------------------------------------- inputs of the cache machine
CatPayload == [EmptyPayload EXCEPT !["categories"] = SomeMap, !["meta"] = AList]

RawSmall == {PyDict(CatPayload), PyStr(JsonDumps(CatPayload)), PyStr(<<"[]">>)}

Replies(vers, raws) ==
    {StoreReply("error", 0, None), StoreReply("no_rows", 0, None)}
    \cup {StoreReply("row", v, raw) : v \in vers, raw \in raws}

\* what the store can answer to one query
StoreReplies == Replies(1..MaxVer, RawSmall)

TickSteps == {30, 59}

NoCall == [called |-> FALSE, at |-> 0, fetched |-> 0, gotRow |-> FALSE]
NoOp == [fn |-> "none", key |-> <<"", "">>, now |-> 0, st |-> NoReply,
         before |-> <<>>, prev |-> NoCall,
         ret |-> None, fetched |-> 0, logged |-> FALSE, raised |-> FALSE]

IdleConc == [run |-> FALSE]
IdleFmt == [run |-> FALSE]
IdleComb == [run |-> FALSE]
IdleChat == [run |-> FALSE]

Init ==
    /\ clock = 0
    /\ cache = <<>>
    /\ last = [k \in Keys |-> NoCall]
    /\ op = NoOp
    /\ conc = IdleConc
    /\ fmt = IdleFmt
    /\ comb = IdleComb
    /\ chat = IdleChat

\* time.time() moves on between calls
Tick ==
    /\ \E d \in TickSteps : clock + d <= MaxClock /\ clock' = clock + d
    /\ UNCHANGED <<cache, last, op, conc, fmt, comb, chat>>

\* one whole call get_baby_report_raw(baby_id, access_token, report_type)
GetBabyReportRaw(key, st) ==
    LET r == RawCall(cache, clock, key, st) IN
    /\ cache' = r.cache
    /\ op' = [fn |-> "get_baby_report_raw", key |-> key, now |-> clock,
              st |-> IF r.fetched = 0 THEN NoReply ELSE st,
              before |-> cache, prev |-> last[key],
              ret |-> r.ret, fetched |-> r.fetched, logged |-> r.logged,
              raised |-> r.raised]
    /\ last' = [last EXCEPT ![key] = [called |-> TRUE, at |-> clock,
                                      fetched |-> r.fetched,
                                      gotRow |-> r.ret.t = "row"]]
    /\ UNCHANGED <<clock, conc, fmt, comb, chat>>

Call == \E key \in Keys : \E st \in StoreReplies : GetBabyReportRaw(key, st)

Next == Tick \/ Call

Spec == Init /\ [][Next]_vars

\* ------------------------------------------------ every shape of row data
FieldShapes == {Missing, SomeMap, EmptyMap, AList}
ShapePayloads ==
    {[k \in AllKeys |-> IF k = "categories" THEN c
                        ELSE IF k = "aggregates" THEN a
                        ELSE IF k = "meta" THEN m ELSE x] :
        c \in FieldShapes, a \in {SomeMap, ANull},
        m \in {Missing, AStr}, x \in {Missing, AStr}}

BadTexts == {<<>>, <<"{">>, <<"oops">>,
             <<"{", "categories", ":", "{}", ",", "}">>,
             <<"{", "categories", "{}", "}">>}
OtherJsonTexts == {<<"[]">>, <<"null">>, <<"7">>, <<"str">>}

RawShapes ==
    {PyDict(d) : d \in ShapePayloads}
    \cup {PyStr(JsonDumps(d)) : d \in ShapePayloads}
    \cup {PyStr(s) : s \in BadTexts \cup OtherJsonTexts}
    \cup {None, PyList, PyInt}

ShapeReplies == Replies({1}, RawShapes)

CallShapes ==
    \E key \in Keys : \E st \in ShapeReplies : GetBabyReportRaw(key, st)

SpecShapes == Init /\ [][CallShapes]_vars

\* ------------------------------------- concurrent get_baby_report_raw calls
\* Each process runs one call at a time; the steps are the places where
\* another call can run in between: the clock reading (line 66), the cache
\* lookup (lines 67-69), the store query (lines 72-81) and the cache write
\* (line 101).  conc.wrote and conc.hit record who wrote an entry, when its
\* record was read from the store, whether it overwrote an entry written since
\* its own lookup (raced), and the last cache hit.
Procs == {"p1", "p2"}
ConcKeys == {<<"b1", "weekly_summary">>}
ConcRaws == {PyDict(CatPayload), PyStr(<<"[]">>)}
ConcReplies == Replies(1..MaxVer, ConcRaws)

IdleProc == [pc |-> "idle", key |-> <<"", "">>, now |-> 0, row |-> None, readAt |-> 0]
NoWrite == [set |-> FALSE, by |-> "", at |-> 0, row |-> None, readAt |-> 0,
            raced |-> FALSE]
NoHit == [seen |-> FALSE, key |-> <<"", "">>, now |-> 0, row |-> None, readAt |-> 0]

InitConc ==
    /\ clock = 0
    /\ cache = <<>>
    /\ last = [k \in Keys |-> NoCall]
    /\ op = NoOp
    /\ conc = [run |-> TRUE, procs |-> [p \in Procs |-> IdleProc],
               wrote |-> [k \in Keys |-> NoWrite], hit |-> NoHit]
    /\ fmt = IdleFmt
    /\ comb = IdleComb
    /\ chat = IdleChat

\* lines 82-100: the value the call is about to cache, None when it returns
\* without caching
FetchedRow(key, st) ==
    LET r == FetchAndStore(<<>>, 0, key, st) IN r.ret

\* lines 65-66
ConcStart(p, key) ==
    /\ conc.procs[p].pc = "idle"
    /\ conc' = [conc EXCEPT !.procs[p] = [IdleProc EXCEPT !.pc = "lookup",
                                           !.key = key, !.now = clock]]
    /\ UNCHANGED <<clock, cache, last, op, fmt, comb, chat>>

\* lines 67-69
ConcLookup(p) ==
    LET me == conc.procs[p]
        cached == CacheGet(cache, me.key) IN
    /\ me.pc = "lookup"
    /\ IF CacheFresh(cached, me.now)
       THEN conc' = [conc EXCEPT !.procs[p] = IdleProc,
                        !.hit = [seen |-> TRUE, key |-> me.key,
                                 now |-> me.now, row |-> cached.row,
                                 readAt |-> conc.wrote[me.key].readAt]]
       ELSE conc' = [conc EXCEPT !.procs[p].pc = "fetch"]
    /\ UNCHANGED <<clock, cache, last, op, fmt, comb, chat>>

\* lines 71-100: the store answers the query; the call returns None or goes
\* on to write the cache
ConcFetch(p, st) ==
    LET me == conc.procs[p]
        row == FetchedRow(me.key, st) IN
    /\ me.pc = "fetch"
    /\ IF row.t = "row"
       THEN conc' = [conc EXCEPT !.procs[p].pc = "store", !.procs[p].row = row,
                                 !.procs[p].readAt = clock]
       ELSE conc' = [conc EXCEPT !.procs[p] = IdleProc]
    /\ UNCHANGED <<clock, cache, last, op, fmt, comb, chat>>

\* lines 101-102
ConcStore(p) ==
    LET me == conc.procs[p] IN
    /\ me.pc = "store"
    /\ cache' = CachePut(cache, me.key, CacheEntry(me.now, me.row))
    /\ conc' = [conc EXCEPT !.procs[p] = IdleProc,
                   !.wrote[me.key] = [set |-> TRUE, by |-> p, at |-> me.now,
                                      row |-> me.row, readAt |-> me.readAt,
                                      raced |-> CacheFresh(CacheGet(cache, me.key),
                                                           me.now)]]
    /\ UNCHANGED <<clock, last, op, fmt, comb, chat>>

ConcTick ==
    /\ \E d \in TickSteps : clock + d <= MaxClock /\ clock' = clock + d
    /\ UNCHANGED <<cache, last, op, conc, fmt, comb, chat>>

NextConc ==
    \/ ConcTick
    \/ \E p \in Procs : \E key \in ConcKeys : ConcStart(p, key)
    \/ \E p \in Procs : ConcLookup(p)
    \/ \E p \in Procs : \E st \in ConcReplies : ConcFetch(p, st)
    \/ \E p \in Procs : ConcStore(p)

SpecConc == InitConc /\ [][NextConc]_vars

\* ------------------------------------------------------ format_baby_report
\* A text is the sequence of its lines; a line carries its text and, for an
\* item line, the fragments that " | " joins.
Line(kind, text) == [kind |-> kind, text |-> text, parts |-> <<>>]
BlankLine == Line("blank", "")

RECURSIVE JoinStr(_, _)
\* sep.join(parts)
JoinStr(parts, sep) ==
    IF Len(parts) = 0 THEN ""
    ELSE IF Len(parts) = 1 THEN parts[1]
    ELSE parts[1] \o sep \o JoinStr(Tail(parts), sep)

\* items[:k] for a positive k
Take(items, k) == SubSeq(items, 1, IF Len(items) < k THEN Len(items) ELSE k)

\* A timestamp field of an item: absent (or None), the empty string, or a
\* text.  A text that datetime.fromisoformat accepts (ok) reads a wall time
\* in seconds and a suffix "Z", "+00:00", "+01:00" or "" (no UTC offset).
NoTs == [t |-> "missing", ok |-> FALSE, wall |-> 0, suffix |-> ""]
EmptyTs == [t |-> "empty", ok |-> FALSE, wall |-> 0, suffix |-> ""]
BadTs == [t |-> "text", ok |-> FALSE, wall |-> 0, suffix |-> ""]
IsoTs(wall, suffix) == [t |-> "text", ok |-> TRUE, wall |-> wall, suffix |-> suffix]

\* truthiness of start / end at line 170
Truthy(ts) == ts.t = "text"

\* str(x).replace("Z", "+00:00")
ReplaceZ(ts) == IF ts.suffix = "Z" THEN [ts EXCEPT !.suffix = "+00:00"] ELSE ts

OffsetSeconds(suffix) == IF suffix = "+01:00" THEN 3600 ELSE 0

\* datetime.fromisoformat: a datetime, or ValueError
FromIsoFormat(ts) ==
    IF ~ts.ok THEN [t |-> "ValueError", aware |-> FALSE, secs |-> 0]
    ELSE [t |-> "datetime", aware |-> ts.suffix # "",
          secs |-> ts.wall - OffsetSeconds(ts.suffix)]

\* (e - s).total_seconds(): TypeError when only one of the two has an offset
TotalSeconds(e, s) ==
    IF e.aware # s.aware THEN [t |-> "TypeError", secs |-> 0]
    ELSE [t |-> "float", secs |-> e.secs - s.secs]

\* int(round(secs / 60)): round half to even
RoundMinutes(secs) ==
    LET q == secs \div 60
        r == secs % 60 IN
    IF r < 30 THEN q
    ELSE IF r > 30 THEN q + 1
    ELSE IF q % 2 = 0 THEN q ELSE q + 1

DurationPartsNoUpper(start, end) ==
    IF ~(Truthy(start) /\ Truthy(end)) THEN <<>>
    ELSE LET s == FromIsoFormat(ReplaceZ(start))
             e == FromIsoFormat(ReplaceZ(end)) IN
         IF s.t # "datetime" \/ e.t # "datetime" THEN <<>>
         ELSE LET d == TotalSeconds(e, s) IN
              IF d.t # "float" THEN <<>>
              ELSE IF 0 < d.secs
                   THEN <<ToString(RoundMinutes(d.secs)) \o "m">>
                   ELSE <<>>

\* lines 170-178: the duration fragment, or nothing
DurationParts(start, end) ==
    IF ~(Truthy(start) /\ Truthy(end)) THEN <<>>
    ELSE LET s == FromIsoFormat(ReplaceZ(start))
             e == FromIsoFormat(ReplaceZ(end)) IN
         IF s.t # "datetime" \/ e.t # "datetime" THEN <<>>
         ELSE LET d == TotalSeconds(e, s) IN
              IF d.t # "float" THEN <<>>
              ELSE IF 0 < d.secs /\ d.secs < 24 * 60 * 60
                   THEN <<ToString(RoundMinutes(d.secs)) \o "m">>
                   ELSE <<>>

\* An item: type is "" when absent; the data fields value, temperature and
\* tooth_name are present (has) or not; notes has a length and a text.
Field(s) == [has |-> TRUE, s |-> s]
NoField == [has |-> FALSE, s |-> ""]
Notes(len, text) == [len |-> len, text |-> text]
NoNotes == Notes(0, "")
ItemData(start, end, notes, value, temperature, tooth) ==
    [startTime |-> start, endTime |-> end, notes |-> notes, value |-> value,
     temperature |-> temperature, tooth_name |-> tooth]
\* item.get("data") or {}
NoItemData == ItemData(NoTs, NoTs, NoNotes, NoField, NoField, NoField)
Item(type, data) == [type |-> type, data |-> data]

\* notes[:120]
Notes120(n) == IF n.len <= 120 THEN n.text ELSE n.text \o "[:120]"

\* lines 161-188: the fragments of one item (the degree sign of line 182 is
\* written as a space)
ItemParts(item) ==
    LET d == item.data
        parts == (IF item.type # "" THEN <<item.type>> ELSE <<>>)
                 \o DurationParts(d.startTime, d.endTime)
                 \o (IF d.value.has THEN <<"value=" \o d.value.s>> ELSE <<>>)
                 \o (IF d.temperature.has
                     THEN <<"temp=" \o d.temperature.s \o " C">> ELSE <<>>)
                 \o (IF d.tooth_name.has THEN <<"tooth=" \o d.tooth_name.s>> ELSE <<>>)
                 \o (IF d.notes.len > 0 THEN <<Notes120(d.notes)>> ELSE <<>>)
    IN IF Len(parts) = 0 THEN <<"entry">> ELSE parts

\* line 189
ItemLine(item) ==
    LET parts == ItemParts(item) IN
    [kind |-> "item", text |-> "- " \o JoinStr(parts, " | "), parts |-> parts]

\* cat.upper()
Upper(cat) ==
    CASE cat = "sleep" -> "SLEEP"
      [] cat = "feeding" -> "FEEDING"
      [] OTHER -> cat

\* A category: its name and its items; islist is FALSE when the value stored
\* under the name is not a list.
Category(name, islist, items) == [name |-> name, islist |-> islist, items |-> items]

MoreLine(n, k) == Line("more", "... (+" \o ToString(n - k) \o " more)")

CategoryLinesOffByOne(c, k) ==
    <<Line("cat", "[" \o Upper(c.name) \o "]")>>
    \o (IF ~c.islist \/ Len(c.items) = 0
        THEN <<Line("noentries", "- (no entries)"), BlankLine>>
        ELSE [i \in 1..Len(Take(c.items, k)) |-> ItemLine(c.items[i])]
             \o (IF Len(c.items) >= k THEN <<MoreLine(Len(c.items), k)>> ELSE <<>>)
             \o <<BlankLine>>)

\* lines 155-192: the section of one category
CategoryLines(c, k) ==
    <<Line("cat", "[" \o Upper(c.name) \o "]")>>
    \o (IF ~c.islist \/ Len(c.items) = 0
        THEN <<Line("noentries", "- (no entries)"), BlankLine>>
        ELSE [i \in 1..Len(Take(c.items, k)) |-> ItemLine(c.items[i])]
             \o (IF Len(c.items) > k THEN <<MoreLine(Len(c.items), k)>> ELSE <<>>)
             \o <<BlankLine>>)

RECURSIVE AllCategoryLines(_, _)
\* lines 154-192
AllCategoryLines(cats, k) ==
    IF Len(cats) = 0 THEN <<>>
    ELSE CategoryLines(Head(cats), k) \o AllCategoryLines(Tail(cats), k)

\* meta: "" stands for an absent or empty text, -1 for an absent log_count
Meta(date, ps, pe, count, gen) ==
    [date |-> date, period_start |-> ps, period_end |-> pe, log_count |-> count,
     generated_at |-> gen]
NoMeta == Meta("", "", "", -1, "")
PyText(x) == IF x = "" THEN "None" ELSE x

\* lines 131-140 (the arrow of line 135 is written "->")
MetaLines(m) ==
    (IF m.date # "" THEN <<Line("meta", "Date: " \o m.date)>>
     ELSE IF m.period_start # "" \/ m.period_end # ""
     THEN <<Line("meta", "Period: " \o PyText(m.period_start) \o " -> "
                          \o PyText(m.period_end))>>
     ELSE <<>>)
    \o (IF m.log_count # -1
        THEN <<Line("meta", "Logs Count: " \o ToString(m.log_count))>> ELSE <<>>)
    \o (IF m.generated_at # ""
        THEN <<Line("meta", "Generated At: " \o m.generated_at)>> ELSE <<>>)
    \o <<BlankLine>>

\* An aggregate: a scalar text, or a mapping given as its (subkey, value)
\* pairs, where the value "" stands for None.
Scalar(k, v) == [k |-> k, isdict |-> FALSE, v |-> v, sub |-> <<>>]
SubMap(k, sub) == [k |-> k, isdict |-> TRUE, v |-> "", sub |-> sub]

RECURSIVE SubParts(_)
SubParts(sub) ==
    IF Len(sub) = 0 THEN <<>>
    ELSE (IF sub[1][2] # "" THEN <<sub[1][1] \o "=" \o sub[1][2]>> ELSE <<>>)
         \o SubParts(Tail(sub))

\* lines 146-150
AggregateLine(a) ==
    IF a.isdict
    THEN Line("agg", "- " \o a.k \o ": " \o JoinStr(SubParts(a.sub), ", "))
    ELSE Line("agg", "- " \o a.k \o ": " \o a.v)

\* lines 143-151
AggregateLines(aggs, incl) ==
    IF incl /\ Len(aggs) > 0
    THEN <<Line("aggs", "[AGGREGATES]")>>
         \o [i \in 1..Len(aggs) |-> AggregateLine(aggs[i])]
         \o <<BlankLine>>
    ELSE <<>>

\* The row the formatter reads: created_at is "" when absent.
FmtRow(rtype, created, cats, aggs, meta) ==
    [t |-> "row", report_type |-> rtype, created_at |-> created,
     categories |-> cats, aggregates |-> aggs, meta |-> meta]
EmptyRow == [t |-> "None"]

\* lines 107-195
FormatBabyReport(row, k, incl) ==
    IF row.t # "row" THEN <<Line("empty", "Report: (empty)")>>
    ELSE <<Line("title", "=== BABY REPORT CONTEXT ==="),
           Line("type", "Type: " \o row.report_type)>>
         \o (IF row.created_at # ""
             THEN <<Line("created", "DB Created: " \o row.created_at)>> ELSE <<>>)
         \o MetaLines(row.meta)
         \o AggregateLines(row.aggregates, incl)
         \o AllCategoryLines(row.categories, k)
         \o <<Line("trimmed", "(Trimmed to " \o ToString(k) \o " items per category)")>>

\* ------------------------------------------------- inputs of the formatter
\* 10:00:00 as seconds of the day
T10 == 10 * 3600
Nap90 == Item("i1", ItemData(IsoTs(T10, "Z"), IsoTs(T10 + 5400, "Z"), Notes(2, "ok"),
                             NoField, NoField, NoField))
Feed5 == Item("i2", ItemData(NoTs, NoTs, NoNotes, Field("5"), NoField, NoField))
Bare == Item("", NoItemData)
ItemPool == {Nap90, Feed5, Bare}

ItemLists(n) == UNION {[1..m -> ItemPool] : m \in 0..n}

CategoryInputs ==
    {<<>>}
    \cup {<<Category("sleep", TRUE, l)>> : l \in ItemLists(MaxItems)}
    \cup {<<Category("sleep", TRUE, l), Category("feeding", b, l2)>> :
            l \in ItemLists(MaxItems), b \in BOOLEAN, l2 \in ItemLists(1)}

Envelopes ==
    {[created |-> "", aggs |-> <<>>, meta |-> NoMeta, incl |-> TRUE],
     [created |-> "2024-01-02", aggs |-> <<Scalar("total", "3")>>,
      meta |-> Meta("2024-01-01", "", "", 0, ""), incl |-> TRUE],
     [created |-> "2024-01-02",
      aggs |-> <<SubMap("sleep", <<<<"count", "2">>, <<"avg", "">>, <<"max", "90">>>>)>>,
      meta |-> Meta("", "2024-01-01", "", -1, "2024-01-08"), incl |-> TRUE],
     [created |-> "", aggs |-> <<Scalar("total", "3")>>,
      meta |-> Meta("", "", "2024-01-07", 4, ""), incl |-> FALSE]}

FmtStart(row, k, incl) ==
    [run |-> TRUE, done |-> FALSE, row |-> row, k |-> k, incl |-> incl, out |-> <<>>]

InitOther ==
    /\ clock = 0
    /\ cache = <<>>
    /\ last = [k \in Keys |-> NoCall]
    /\ op = NoOp
    /\ conc = IdleConc
    /\ comb = IdleComb
    /\ chat = IdleChat

InitFmt ==
    /\ InitOther
    /\ \E cats \in CategoryInputs : \E e \in Envelopes : \E k \in 1..MaxK :
        fmt = FmtStart(FmtRow("end_of_day_summary", e.created, cats, e.aggs, e.meta),
                       k, e.incl)

InitFmtEmpty ==
    /\ InitOther
    /\ \E k \in 1..MaxK : fmt = FmtStart(EmptyRow, k, TRUE)

\* one call format_baby_report(report_row, max_items_per_category, include_aggregates)
Format ==
    /\ fmt.run /\ ~fmt.done
    /\ fmt' = [fmt EXCEPT !.done = TRUE,
                          !.out = FormatBabyReport(fmt.row, fmt.k, fmt.incl)]
    /\ UNCHANGED <<clock, cache, last, op, conc, comb, chat>>

SpecFmt == (InitFmt \/ InitFmtEmpty) /\ [][Format]_vars

Spans == {-60, 0, 1, 29, 30, 90, 150, 5400, 86370, 86399, 86400, 90000}
StartInputs == {NoTs, EmptyTs, BadTs, IsoTs(T10, "Z"), IsoTs(T10, ""),
                IsoTs(T10 + 3600, "+01:00")}
EndInputs ==
    {NoTs, EmptyTs, BadTs}
    \cup {IsoTs(T10 + d, "Z") : d \in Spans}
    \cup {IsoTs(T10 + 5400, ""), IsoTs(T10 + 5400, "+00:00"),
          IsoTs(T10 + 3600 + 86400, "+01:00")}

InitDur ==
    /\ InitOther
    /\ \E st \in StartInputs : \E en \in EndInputs : \E k \in 1..MaxK :
        fmt = FmtStart(
                FmtRow("end_of_day_summary", "",
                       <<Category("sleep", TRUE,
                                  <<Item("nap", ItemData(st, en, NoNotes, NoField,
                                                         NoField, NoField))>>)>>,
                       <<>>, NoMeta),
                k, TRUE)

SpecDur == InitDur /\ [][Format]_vars

\* ------------------------- get_baby_report_formatted and the combined text
\* What the content ids of a cached payload stand for when it is formatted.
CategoriesOf(v) == IF v = SomeMap THEN <<Category("sleep", TRUE, <<Nap90>>)>> ELSE <<>>
AggregatesOf(v) == IF v = SomeMap THEN <<Scalar("total", "3")>> ELSE <<>>
MetaOf(v) == IF v = SomeMap THEN Meta("2024-01-01", "", "", 1, "") ELSE NoMeta

FmtRowOf(row) ==
    FmtRow(row.report_type, "2024-01-0" \o ToString(row.created_at),
           CategoriesOf(row.data.d["categories"]),
           AggregatesOf(row.data.d["aggregates"]),
           MetaOf(row.data.d["meta"]))

NotFoundText(rtype) == <<Line("notfound", "No report found: " \o rtype)>>

\* lines 203-206: the text for what get_baby_report_raw returned
FormattedResult(r, rtype, k) ==
    [text |-> IF r.ret.t # "row" THEN NotFoundText(rtype)
              ELSE FormatBabyReport(FmtRowOf(r.ret), k, TRUE),
     found |-> r.ret.t = "row",
     cache |-> r.cache]

\* lines 197-206: the text, and the cache after the call
GetBabyReportFormatted(c, now, key, st, k) ==
    FormattedResult(RawCall(c, now, key, st), key[2], k)

Block(tag, text) == [tag |-> tag, text |-> text]

\* blocks.sort(key=lambda x: 0 if x[0] == first else 1), a stable sort
SortBlocksWeeklyFirst(blocks, first) ==
    SelectSeq(blocks, LAMBDA b : b.tag = "weekly_summary")
    \o SelectSeq(blocks, LAMBDA b : b.tag # "weekly_summary")

SortBlocks(blocks, first) ==
    SelectSeq(blocks, LAMBDA b : b.tag = first)
    \o SelectSeq(blocks, LAMBDA b : b.tag # first)

\* b[1].startswith("No report found")
StartsWithNoReport(text) ==
    Len(text) > 0 /\ text[1].text \in {"No report found: " \o t :
                                        t \in {"weekly_summary", "end_of_day_summary"}}

\* b[1] and not b[1].startswith("No report found")
KeepBlock(b) == Len(b.text) > 0 /\ ~StartsWithNoReport(b.text)

RECURSIVE JoinTexts(_)
\* "\n\n".join(texts): a blank line between two texts
JoinTexts(texts) ==
    IF Len(texts) = 0 THEN <<>>
    ELSE IF Len(texts) = 1 THEN texts[1]
    ELSE texts[1] \o <<BlankLine>> \o JoinTexts(Tail(texts))

\* lines 228-229: "\n\n".join(b[1] for b in blocks if ...)
JoinKept(sorted) ==
    JoinTexts([i \in 1..Len(SelectSeq(sorted, KeepBlock)) |->
                  SelectSeq(sorted, KeepBlock)[i].text])

\* lines 222-229: the blocks are sorted, filtered and joined
CombineBlocks(blocks, order) ==
    JoinKept(IF order = "daily_first"
             THEN SortBlocks(blocks, "end_of_day_summary")
             ELSE SortBlocks(blocks, "weekly_summary"))

\* lines 215-229, given what the two get_baby_report_formatted calls returned
CombinedResult(w, d, c, incW, incD, order) ==
    [out |-> CombineBlocks(
                 (IF incW THEN <<Block("weekly_summary", w.text)>> ELSE <<>>)
                 \o (IF incD THEN <<Block("end_of_day_summary", d.text)>> ELSE <<>>),
                 order),
     w |-> IF incW THEN w.text ELSE <<>>, wfound |-> incW /\ w.found,
     d |-> IF incD THEN d.text ELSE <<>>, dfound |-> incD /\ d.found,
     cache |-> IF incD THEN d.cache ELSE IF incW THEN w.cache ELSE c]

\* the daily call sees the cache the weekly call left
DailyAfterWeekly(w, c, now, baby, incW, incD, order, stD) ==
    CombinedResult(w,
                   GetBabyReportFormatted(IF incW THEN w.cache ELSE c, now,
                                          <<baby, "end_of_day_summary">>, stD, 6),
                   c, incW, incD, order)

\* lines 208-229
CombinedReports(c, now, baby, incW, incD, order, stW, stD) ==
    DailyAfterWeekly(GetBabyReportFormatted(c, now, <<baby, "weekly_summary">>, stW, 6),
                     c, now, baby, incW, incD, order, stD)

Orders == {"weekly_first", "daily_first", "newest_first"}
CombRaws == {PyDict(CatPayload), PyStr(<<"[]">>)}
CombReplies == Replies({1}, CombRaws)

NoComb == [run |-> TRUE, called |-> FALSE, order |-> "", out |-> <<>>,
           w |-> <<>>, wfound |-> FALSE, d |-> <<>>, dfound |-> FALSE]

InitComb ==
    /\ clock = 0
    /\ cache = <<>>
    /\ last = [k \in Keys |-> NoCall]
    /\ op = NoOp
    /\ conc = IdleConc
    /\ fmt = IdleFmt
    /\ comb = NoComb
    /\ chat = IdleChat

\* one call get_combined_reports_for_prompt(baby_id, access_token, ...)
GetCombinedReportsForPrompt(baby, incW, incD, order, stW, stD) ==
    LET r == CombinedReports(cache, clock, baby, incW, incD, order, stW, stD) IN
    /\ cache' = r.cache
    /\ comb' = [run |-> TRUE, called |-> TRUE, order |-> order, out |-> r.out,
                w |-> r.w, wfound |-> r.wfound, d |-> r.d, dfound |-> r.dfound]
    /\ UNCHANGED <<clock, last, op, conc, fmt, chat>>

Combine ==
    /\ comb.run
    /\ \E incW \in BOOLEAN : \E incD \in BOOLEAN : \E order \in Orders :
       \E stW \in CombReplies : \E stD \in CombReplies :
           GetCombinedReportsForPrompt("b1", incW, incD, order, stW, stD)

CombTick ==
    /\ \E d \in TickSteps : clock + d <= MaxClock /\ clock' = clock + d
    /\ UNCHANGED <<cache, last, op, conc, fmt, comb, chat>>

NextComb == CombTick \/ Combine

SpecComb == InitComb /\ [][NextComb]_vars

\* --------------------------------------------------------- the /chat handler
\* A text here is the sequence of its characters; the Optional session id of
\* the request is None or a str.
\* the fixed text of lines 245-247, written here without its diacritics
APOLOGY == "Su anda yanit olustururken bir sorun yasadim. Lutfen tekrar dener misiniz?"

RECURSIVE LStrip(_)
LStrip(s) == IF Len(s) > 0 /\ Head(s) = " " THEN LStrip(Tail(s)) ELSE s
RECURSIVE RStrip(_)
RStrip(s) ==
    IF Len(s) > 0 /\ s[Len(s)] = " " THEN RStrip(SubSeq(s, 1, Len(s) - 1)) ELSE s
\* str.strip()
Strip(s) == RStrip(LStrip(s))

Returned(v) == [exc |-> FALSE, val |-> v]
Raised == [exc |-> TRUE, val |-> None]

\* supabase_tools.get_baby_id_for_user: the id, None when the user has no
\* baby, None when anything raised
GetBabyIdForUser(outcome) == IF outcome = "id" THEN PyStr("b1") ELSE None

\* get_baby_logs_for_prompt(baby_id, access_token, limit): the text of the
\* logs, any other value, or an exception
GetBabyLogsForPrompt(outcome) ==
    IF outcome.kind = "raise" THEN Raised
    ELSE IF outcome.kind = "none" THEN Returned(None)
    ELSE Returned(PyStr(outcome.text))

\* supabase_tools.get_chat_history: the rows, [] when anything raised
GetChatHistory(outcome) == IF outcome.kind = "rows" THEN outcome.rows ELSE <<>>

\* history[-MAX_HISTORY_MESSAGES:]
LastRows(rows) ==
    IF Len(rows) <= MAX_HISTORY_MESSAGES THEN rows
    ELSE SubSeq(rows, Len(rows) - MAX_HISTORY_MESSAGES + 1, Len(rows))

\* main._build_memory, lines 170-183
BuildMemory(outcome) ==
    SelectSeq(LastRows(GetChatHistory(outcome)),
              LAMBDA row : row.content # "" /\ row.role \in {"human", "ai"})

\* lines 203-215
ContextStep(baby, ctx) ==
    IF baby.t = "None" THEN [has |-> FALSE, text |-> <<>>, exc |-> FALSE]
    ELSE LET r == GetBabyLogsForPrompt(ctx) IN
         \* the call raised, or report_text.strip() did: the except clause
         IF r.exc \/ r.val.t # "str"
         THEN [has |-> FALSE, text |-> <<>>, exc |-> FALSE]
         ELSE [has |-> Len(Strip(r.val.s)) > 0, text |-> r.val.s, exc |-> FALSE]

\* lines 241-247
InvokeModelNoTry(llm) ==
    IF llm = "error" THEN [exc |-> TRUE, text |-> ""]
    ELSE [exc |-> FALSE, text |-> "answer"]

InvokeModel(llm) ==
    IF llm = "error" THEN [exc |-> FALSE, text |-> APOLOGY]
    ELSE [exc |-> FALSE, text |-> "answer"]

\* supabase_tools.add_to_chat_history: the row is inserted unless anything
\* raised
AddToChatHistory(ok, sid, role, content) ==
    IF ok THEN <<[session_id |-> sid, role |-> role, content |-> content]>> ELSE <<>>

\* chat_input.session_id or str(uuid.uuid4())
SessionId(given, fresh) ==
    IF given.t = "str" /\ given.s # "" THEN given.s ELSE fresh

\* lines 186-257: raised is TRUE when an exception leaves the handler
ChatHandler(req, fresh, babyOut, ctx, hist, llm, w1, w2) ==
    LET sid == SessionId(req.session_id, fresh)
        baby == GetBabyIdForUser(babyOut)
        c == ContextStep(baby, ctx)
        memory == BuildMemory(hist)
        mode == IF c.has THEN "context" ELSE "general"
        m == InvokeModel(llm)
        saved == AddToChatHistory(w1, sid, "human", req.question)
                 \o AddToChatHistory(w2, sid, "ai", m.text)
    IN IF c.exc \/ m.exc
       THEN [raised |-> TRUE, response |-> "", session_id |-> "", mode |-> mode,
             report_text |-> <<>>, memory |-> memory, saved |-> <<>>]
       ELSE [raised |-> FALSE, response |-> m.text, session_id |-> sid,
             mode |-> mode, report_text |-> IF c.has THEN c.text ELSE <<>>,
             memory |-> memory, saved |-> saved]

SessionInputs == {None, PyStr(""), PyStr("s1")}
\* ChatInput: the question and the optional session id
ChatRequests == {[question |-> "q", session_id |-> sid] : sid \in SessionInputs}
FreshIds == {"uuid-1"}
BabyOutcomes == {"id", "none", "error"}
ContextOutcomes ==
    {[kind |-> "raise", text |-> <<>>], [kind |-> "none", text |-> <<>>]}
    \cup {[kind |-> "text", text |-> t] :
            t \in {<<>>, <<" ", " ">>, <<" ", "l", "o", "g">>}}
HistoryRow(role, content) == [role |-> role, content |-> content]
LongHistory ==
    [i \in 1..(MAX_HISTORY_MESSAGES + 1) |->
        HistoryRow(IF i % 2 = 1 THEN "human" ELSE "ai", "m" \o ToString(i))]
HistoryOutcomes ==
    {[kind |-> "error", rows |-> <<>>], [kind |-> "rows", rows |-> <<>>],
     [kind |-> "rows", rows |-> <<HistoryRow("human", "q0"), HistoryRow("ai", ""),
                                   HistoryRow("system", "x"), HistoryRow("ai", "a0")>>],
     [kind |-> "rows", rows |-> LongHistory]}
ModelOutcomes == {"ok", "error"}

NoChat == [run |-> TRUE, called |-> FALSE]

InitChat ==
    /\ clock = 0
    /\ cache = <<>>
    /\ last = [k \in Keys |-> NoCall]
    /\ op = NoOp
    /\ conc = IdleConc
    /\ fmt = IdleFmt
    /\ comb = IdleComb
    /\ chat = NoChat

\* one POST /chat request
Chat(req, fresh, babyOut, ctx, hist, llm, w1, w2) ==
    /\ chat.run
    /\ chat' = [run |-> TRUE, called |-> TRUE, req |-> req, fresh |-> fresh,
                baby |-> babyOut, ctx |-> ctx, hist |-> hist.kind, llm |-> llm,
                w1 |-> w1, w2 |-> w2,
                res |-> ChatHandler(req, fresh, babyOut, ctx, hist, llm, w1, w2)]
    /\ UNCHANGED <<clock, cache, last, op, conc, fmt, comb>>

NextChat ==
    \E req \in ChatRequests : \E fresh \in FreshIds : \E babyOut \in BabyOutcomes :
    \E ctx \in ContextOutcomes : \E hist \in HistoryOutcomes :
    \E llm \in ModelOutcomes : \E w1 \in BOOLEAN : \E w2 \in BOOLEAN :
        Chat(req, fresh, babyOut, ctx, hist, llm, w1, w2)

SpecChat == InitChat /\ [][NextChat]_vars

\* ----------------------------------------------------------------- claims
IsCall == op.fn = "get_baby_report_raw"
EntryBefore == CacheGet(op.before, op.key)
EntryAfter == CacheGet(cache, op.key)

\* C1 (as stated): for every outcome of the first store query, two successive
\* calls for one key made less than 60 seconds apart issue at most one store
\* query in total.
C1_Original_AnyOutcome ==
    (IsCall /\ op.prev.called /\ op.now - op.prev.at < REPORT_CACHE_TTL)
        => op.prev.fetched + op.fetched <= 1

\* C1 (amended): when the first of two successive calls for one key made less
\* than 60 seconds apart returned a record, the two calls issue at most one
\* store query in total, and if the first one fetched, the second one returns
\* the cached record; a call made 60 seconds or more after the entry of its key
\* was stored issues a new store query.
C1_SuccessiveCalls ==
    IsCall =>
        /\ (op.prev.called /\ op.prev.gotRow
                /\ op.now - op.prev.at < REPORT_CACHE_TTL)
            => /\ op.prev.fetched + op.fetched <= 1
               /\ op.prev.fetched = 1
                    => (op.fetched = 0 /\ op.ret = EntryBefore.row)
        /\ (EntryBefore.t # "None" /\ op.now - EntryBefore.at >= REPORT_CACHE_TTL)
            => op.fetched = 1

C1_Witness ==
    /\ IsCall /\ op.prev.called /\ op.prev.gotRow /\ op.prev.fetched = 1
    /\ op.now - op.prev.at = 59 /\ op.fetched = 0

\* C2: a call that finds an entry of its key with now - fetched_at < 60 returns
\* that cached record without a store fetch (so no hit returns a record older
\* than the TTL); every other call makes exactly one store fetch.
C2_HitOrOneFetch ==
    IsCall =>
        IF EntryBefore.t # "None" /\ op.now - EntryBefore.at < REPORT_CACHE_TTL
        THEN op.ret = EntryBefore.row /\ op.fetched = 0 /\ cache = op.before
        ELSE op.fetched = 1

C2_Witness ==
    /\ IsCall /\ EntryBefore.t # "None"
    /\ op.now - EntryBefore.at = 30 /\ op.fetched = 0 /\ op.ret = EntryBefore.row

\* C3: whenever the store returns a row, whatever the shape of its data field,
\* the call returns a record whose data has exactly the keys categories,
\* aggregates and meta, each a mapping, the cache holds that record, and no
\* failure or absence results.
C3_RowAlwaysNormalized ==
    (IsCall /\ op.st.kind = "row") =>
        /\ op.ret.t = "row" /\ ~op.logged /\ ~op.raised
        /\ op.ret.data.t = "dict"
        /\ KeysOf(op.ret.data.d) = NormKeys
        /\ \A k \in NormKeys : op.ret.data.d[k].t = "dict"
        /\ EntryAfter = CacheEntry(op.now, op.ret)

\* C4: the call never raises; when the store returns no rows or cannot be
\* reached the call makes a single attempt, returns the absence value (an
\* error is logged only in the second case) and leaves the cache as it was.
C4_AbsenceSignals ==
    IsCall =>
        /\ ~op.raised
        /\ op.st.kind \in {"no_rows", "error"}
            => /\ op.ret = None /\ op.fetched = 1
               /\ op.logged = (op.st.kind = "error")
               /\ cache = op.before

C4_Witness ==
    /\ IsCall /\ op.st.kind = "error" /\ op.ret = None
    /\ EntryBefore.t # "None" /\ EntryAfter = EntryBefore

\* C10 (as stated, the expiry clause): an entry found expired by a read of its
\* key is not in the cache after that read.
C10_Original_ExpiredDropped ==
    (IsCall /\ EntryBefore.t # "None"
        /\ op.now - EntryBefore.at >= REPORT_CACHE_TTL)
        => (EntryAfter.t = "None" \/ EntryAfter.at # EntryBefore.at)

\* C10 (amended): a call that returns a record it fetched from the store
\* replaces the entry of its key by the pair (time of the call, that record) as
\* a whole; every other call leaves the whole cache unchanged; no call changes
\* the entry of another key; an expired entry is never returned, and it stays
\* in the cache until a call for its key fetches a record.
C10_CacheFrame ==
    IsCall =>
        /\ \A k \in Keys \ {op.key} : CacheGet(cache, k) = CacheGet(op.before, k)
        /\ DOMAIN cache \subseteq Keys
        /\ IF op.fetched = 1 /\ op.ret.t = "row"
           THEN EntryAfter = CacheEntry(op.now, op.ret)
           ELSE cache = op.before
        /\ (EntryBefore.t # "None" /\ op.now - EntryBefore.at >= REPORT_CACHE_TTL)
            => op.fetched = 1

C10_Witness ==
    /\ IsCall /\ op.fetched = 1 /\ op.ret.t = "row"
    /\ EntryBefore.t # "None" /\ EntryBefore.row # op.ret
    /\ \E k \in Keys \ {op.key} : k \in DOMAIN cache


\* C5: under every interleaving of concurrent calls, the entry of a key is
\* either absent or exactly the (timestamp, record) pair that the call which
\* wrote last put there, and every cache hit returns a record that was read
\* from the store less than 60 seconds before the hit (the time of a hit is
\* the clock reading of the call that hits).
C5_NoCorruption ==
    conc.run =>
        /\ \A k \in Keys :
            IF k \in DOMAIN cache
            THEN /\ conc.wrote[k].set
                 /\ cache[k] = CacheEntry(conc.wrote[k].at, conc.wrote[k].row)
                 /\ cache[k].row.t = "row"
                 /\ cache[k].row.report_type = k[2] /\ cache[k].row.baby_id = k[1]
                 /\ KeysOf(cache[k].row.data.d) = NormKeys
            ELSE ~conc.wrote[k].set
        /\ DOMAIN cache \subseteq Keys
        /\ conc.hit.seen =>
            /\ conc.hit.now - conc.hit.readAt < REPORT_CACHE_TTL
            /\ conc.hit.row.t = "row"

\* two calls for one key both missed and both fetched, the second write
\* replaced the first, and a later call hit on the entry that was written last
C5_Witness ==
    /\ conc.run /\ conc.hit.seen
    /\ \E k \in Keys :
        /\ conc.hit.key = k /\ conc.wrote[k].set /\ conc.wrote[k].raced
        /\ conc.hit.row = conc.wrote[k].row
        /\ conc.wrote[k].readAt > conc.wrote[k].at
        /\ conc.hit.now > conc.wrote[k].readAt

\* ------------------------------------------------------ formatter claims
Formatted == fmt.run /\ fmt.done /\ fmt.row.t = "row"

\* the positions of the category headers in a text, in order
CatIdx(out) == SelectSeq([i \in 1..Len(out) |-> i], LAMBDA i : out[i].kind = "cat")

\* the lines between the header at position j and the blank line that ends
\* its section
SectionBody(out, j) ==
    LET e == CHOOSE e \in (j + 1)..Len(out) :
                /\ out[e].text = ""
                /\ \A m \in (j + 1)..(e - 1) : out[m].text # ""
    IN SubSeq(out, j + 1, e - 1)

\* the line each item of the pool is to give
ExpectedItemText(item) ==
    CASE item.type = "i1" -> "- i1 | 90m | ok"
      [] item.type = "i2" -> "- i2 | value=5"
      [] OTHER -> "- entry"

Min(a, b) == IF a < b THEN a ELSE b

\* C8: for every category with n items and every positive cap k the section
\* of the category holds the lines of its first min(n, k) items in order,
\* then one line "... (+n-k more)" exactly when n > k; a category with no
\* items holds the single line "- (no entries)".
C8_ItemCap ==
    Formatted =>
        LET out == fmt.out
            cats == fmt.row.categories
            idx == CatIdx(out) IN
        /\ Len(idx) = Len(cats)
        /\ \A i \in 1..Len(cats) :
            LET body == SectionBody(out, idx[i])
                items == cats[i].items
                n == Len(items)
                m == Min(n, fmt.k) IN
            IF cats[i].islist /\ n > 0
            THEN /\ Len(body) = m + (IF n > fmt.k THEN 1 ELSE 0)
                 /\ \A x \in 1..m : body[x].text = ExpectedItemText(items[x])
                 /\ n > fmt.k
                    => body[m + 1].text = "... (+" \o ToString(n - fmt.k) \o " more)"
            ELSE cats[i].islist => body = <<Line("noentries", "- (no entries)")>>

C8_Witness ==
    /\ Formatted /\ fmt.k = 2 /\ Len(fmt.row.categories) = 2
    /\ Len(fmt.row.categories[1].items) = 3
    /\ fmt.row.categories[1].items[1] # fmt.row.categories[1].items[2]
    /\ fmt.row.categories[2].islist /\ Len(fmt.row.categories[2].items) = 0
    /\ \E j \in 1..Len(fmt.out) : fmt.out[j].text = "... (+1 more)"

\* C9: an item line carries a duration fragment exactly when startTime and
\* endTime are both valid timestamps whose difference end - start exists (both
\* or neither carries a UTC offset) and lies strictly between 0 and 1440
\* minutes; the fragment is that span in whole minutes (to the nearest
\* minute, so 90 for 90 minutes); in every other case the line has no
\* duration fragment.
ValidTs(ts) == ts.t = "text" /\ ts.ok
Instant(ts) == IF ts.suffix = "+01:00" THEN ts.wall - 3600 ELSE ts.wall
SpanExists(st, en) ==
    ValidTs(st) /\ ValidTs(en) /\ ((st.suffix = "") <=> (en.suffix = ""))
DurItem == fmt.row.categories[1].items[1]
DurLine == fmt.out[CatIdx(fmt.out)[1] + 1]

C9_DurationFragment ==
    (Formatted /\ DurItem.type = "nap") =>
        LET st == DurItem.data.startTime
            en == DurItem.data.endTime
            span == Instant(en) - Instant(st) IN
        IF SpanExists(st, en) /\ 0 < span /\ span < 1440 * 60
        THEN /\ Len(DurLine.parts) = 2 /\ DurLine.parts[1] = "nap"
             /\ \E m \in 0..1440 :
                    /\ DurLine.parts[2] = ToString(m) \o "m"
                    /\ 60 * m - span <= 30 /\ span - 60 * m <= 30
                    /\ span % 60 = 0 => 60 * m = span
        ELSE DurLine.parts = <<"nap">>

C9_Witness ==
    /\ Formatted /\ DurItem.type = "nap"
    /\ DurItem.data.startTime = IsoTs(T10 + 3600, "+01:00")
    /\ DurItem.data.endTime = IsoTs(T10 + 5400, "Z")
    /\ DurLine.text = "- nap | 90m"

\* ------------------------------------------------- combined-report claim
\* the position of the line "Type: <report type>" in a text, 0 when absent
TypeLinePos(out, rtype) ==
    IF \E i \in 1..Len(out) : out[i].text = "Type: " \o rtype
    THEN CHOOSE i \in 1..Len(out) : out[i].text = "Type: " \o rtype
    ELSE 0

\* C7: with both reports found, order "weekly_first" puts the weekly block
\* before the daily block and "daily_first" the daily block first, with one
\* blank line between them; a block that is empty or reports not found is
\* dropped, so one found report gives that block alone with no separator
\* before it, and no found report gives the empty text.
C7_CombinedOrder ==
    (comb.run /\ comb.called) =>
        LET out == comb.out
            pw == TypeLinePos(out, "weekly_summary")
            pd == TypeLinePos(out, "end_of_day_summary") IN
        /\ \A i \in 1..Len(out) : out[i].kind # "notfound"
        /\ (comb.wfound /\ comb.dfound /\ comb.order = "weekly_first")
            => /\ out = comb.w \o <<BlankLine>> \o comb.d
               /\ 0 < pw /\ pw < pd
        /\ (comb.wfound /\ comb.dfound /\ comb.order = "daily_first")
            => /\ out = comb.d \o <<BlankLine>> \o comb.w
               /\ 0 < pd /\ pd < pw
        /\ (~comb.wfound /\ comb.dfound)
            => (out = comb.d /\ out[1].text = "=== BABY REPORT CONTEXT ===" /\ pw = 0)
        /\ (comb.wfound /\ ~comb.dfound)
            => (out = comb.w /\ out[1].text = "=== BABY REPORT CONTEXT ===" /\ pd = 0)
        /\ (~comb.wfound /\ ~comb.dfound) => out = <<>>

C7_Witness ==
    /\ comb.run /\ comb.called /\ comb.order = "daily_first"
    /\ comb.wfound /\ comb.dfound
    /\ TypeLinePos(comb.out, "end_of_day_summary") = 2
    /\ TypeLinePos(comb.out, "weekly_summary") > 2

\* ------------------------------------------------------------ chat claim
BlankContexts == {<<>>, <<" ", " ">>}
NoContext ==
    \/ chat.baby # "id"
    \/ chat.ctx.kind \in {"raise", "none"}
    \/ chat.ctx.text \in BlankContexts

\* C6: whatever fails among the baby lookup, the context fetch, the history
\* read, the model call and the history writes, the handler raises nothing
\* and answers with a session id: the one of the request when it carries a
\* non-empty one, otherwise a newly generated one; when the model call fails
\* the answer is the fixed apology; without a baby, with a blank context or
\* with a failed context fetch the request is served in the general mode.
C6_ChatNeverFails ==
    (chat.run /\ chat.called) =>
        /\ ~chat.res.raised
        /\ chat.res.session_id # ""
        /\ chat.res.session_id =
             (IF chat.req.session_id \in {None, PyStr("")}
              THEN chat.fresh ELSE chat.req.session_id.s)
        /\ chat.llm = "error" => chat.res.response = APOLOGY
        /\ chat.llm = "ok" => chat.res.response = "answer"
        /\ NoContext => chat.res.mode = "general"
        /\ ~NoContext => chat.res.mode = "context"

C6_Witness ==
    /\ chat.run /\ chat.called
    /\ chat.baby = "id" /\ chat.ctx.kind = "raise" /\ chat.hist = "error"
    /\ chat.llm = "error" /\ ~chat.w1 /\ ~chat.w2
    /\ chat.req.session_id = None
    /\ chat.res.response = APOLOGY /\ chat.res.session_id = chat.fresh
    /\ chat.res.mode = "general"
====
